---- MODULE Spec2Model ----
(***************************************************************************)
(* Model of the prompt-chain engine of PromptSynthesis-App:                *)
(*   src/components/PromptBuilder.tsx  (PromptChainer: steps, runChain,    *)
(*                                      substituteAll, stage editing)      *)
(*   src/services/geminiService.ts     (testPrompt: the streaming adapter) *)
(*                                                                         *)
(* Encoding of strings.  A JavaScript string is the sequence of its        *)
(* characters, each a string of length one: `{{a}}` is                     *)
(* <<"{","{","a","}","}">> and Str("{{a}}") writes it.  String.split,      *)
(* Array.join and the regular expression of detectedVars are computed      *)
(* character by character, as the engine computes them.  An operator that  *)
(* takes a text accepts a sequence of longer pieces as well and reads it   *)
(* as the characters of the pieces in order (chars).  The names of the     *)
(* placeholders (the keys of globalVariables, `output_${n}`) are kept as   *)
(* TLA+ strings and turned into characters where a text is built of them.  *)
(*                                                                         *)
(* Encoding of objects.  React state holds an array of references to step  *)
(* objects; runChain copies the array ([...steps]) but mutates the shared  *)
(* objects in place.  `heap` maps a reference to the object it denotes and *)
(* `steps`, `updatedSteps` are sequences of references.                    *)
(***************************************************************************)
EXTENDS Integers, Sequences, FiniteSets, TLC

\* ---------------------------------------------------------------- bounds
MaxSteps  == 3    \* stages in the chain
MaxChunks == 2    \* chunks the adapter delivers in one behaviour
MaxRuns   == 2    \* runs of the chain
MaxEdits  == 1    \* user edits (field, name, global value, remove)
MaxParts  == 2    \* pieces an input text of substituteAll is made of
MaxOut    == 2    \* steps of the chain a direct call of substituteAll sees
MaxTests  == 2    \* tests started in the prompt tester
MaxDeletes == 1   \* deletions in the tester's history
MaxVersions == 51 \* edits of the prompt in the prompt builder
MaxMoves  == 2    \* undo, redo and re-edits within the debounce delay

\* ---------------------------------------------------------------- strings
L  == "{"
R  == "}"

\* the characters of a string literal
Str(s) == [k \in 1..Len(s) |-> SubSeq(s, k, k)]

\* the characters of a text given as a sequence of pieces; a text that is
\* a sequence of characters already is left as it is
RECURSIVE flatten(_)
flatten(pieces) ==
    IF pieces = <<>> THEN <<>> ELSE Str(pieces[1]) \o flatten(Tail(pieces))

chars(text) ==
    IF \A k \in 1..Len(text) : Len(text[k]) = 1 THEN text ELSE flatten(text)

\* `{{${key}}}` : the placeholder of a name
Placeholder(key) == <<L, L>> \o Str(key) \o <<R, R>>

NumStr == [n \in 0..9 |-> CASE n = 0 -> "0" [] n = 1 -> "1" [] n = 2 -> "2"
                            [] n = 3 -> "3" [] n = 4 -> "4" [] n = 5 -> "5"
                            [] n = 6 -> "6" [] n = 7 -> "7" [] n = 8 -> "8"
                            [] OTHER -> "9"]

\* `output_${idx + 1}`
OutputKey == [n \in 0..9 |-> CASE n = 0 -> "output_0" [] n = 1 -> "output_1"
                            [] n = 2 -> "output_2" [] n = 3 -> "output_3"
                            [] n = 4 -> "output_4" [] n = 5 -> "output_5"
                            [] n = 6 -> "output_6" [] n = 7 -> "output_7"
                            [] n = 8 -> "output_8" [] OTHER -> "output_9"]

\* the value of a step's `output` before any run wrote it (output?: string)
undefined == <<"<undefined>">>

\* JavaScript truthiness of an optional string: neither undefined nor ""
Truthy(s) == s # undefined /\ s # <<>>

\* do the characters of sep stand in cs from position p on (1-based)
occursAt(cs, sep, p) ==
    /\ p + Len(sep) - 1 <= Len(cs)
    /\ \A k \in 1..Len(sep) : cs[p + k - 1] = sep[k]

\* does sep occur in s at character position p (1-based)
MatchAt(s, sep, p) == occursAt(chars(s), chars(sep), p)

\* the first position from p on at which sep stands in cs, 0 when there is
\* none
indexOf(cs, sep, p) ==
    LET found == { q \in p..Len(cs) : occursAt(cs, sep, q) }
    IN IF found = {} THEN 0 ELSE CHOOSE q \in found : \A q2 \in found : q <= q2

\* a split that cuts at the first occurrence of sep only (what a
\* String.prototype.replace with a string pattern would do); used to show
\* that C8 depends on split cutting at every occurrence
splitFirstOnly(s, sep) ==
    LET cs == chars(s)
        q  == indexOf(cs, chars(sep), 1)
    IN IF q = 0 THEN <<cs>>
       ELSE <<SubSeq(cs, 1, q - 1), SubSeq(cs, q + Len(chars(sep)), Len(cs))>>

\* String.prototype.split(sep) for a non-empty separator: the pieces between
\* the leftmost, non-overlapping occurrences of sep, found character by
\* character; splitFrom gives the pieces of cs from position p on
RECURSIVE splitFrom(_, _, _)
splitFrom(cs, sep, p) ==
    LET q == indexOf(cs, sep, p)
    IN IF q = 0 THEN <<SubSeq(cs, p, Len(cs))>>
       ELSE <<SubSeq(cs, p, q - 1)>> \o splitFrom(cs, sep, q + Len(sep))

split(s, sep) == splitFrom(chars(s), chars(sep), 1)

\* Array.prototype.join(val)
RECURSIVE join(_, _)
join(parts, val) ==
    IF Len(parts) = 0 THEN <<>>
    ELSE IF Len(parts) = 1 THEN chars(parts[1])
    ELSE chars(parts[1]) \o chars(val) \o join(Tail(parts), val)

\* ------------------------------------------------------ substituteAll
\* first forEach of substituteAll: the entries of globalVariables in
\* insertion order, each replaced in the result of the previous one
RECURSIVE substituteGlobals(_, _)
substituteGlobals(result, entries) ==
    IF entries = <<>> THEN result
    ELSE substituteGlobals(
           join(split(result, Placeholder(entries[1].key)), entries[1].val),
           Tail(entries))

\* the second forEach without its `idx < currentStepIndex` test; used to
\* show that C6 depends on that test
RECURSIVE substituteOutputsAnyStep(_, _, _, _)
substituteOutputsAnyStep(result, outs, idx, currentStepIndex) ==
    IF idx >= Len(outs) THEN result
    ELSE substituteOutputsAnyStep(
           IF Truthy(outs[idx + 1])
           THEN join(split(result, Placeholder(OutputKey[idx + 1])), outs[idx + 1])
           ELSE result,
           outs, idx + 1, currentStepIndex)

\* second forEach of substituteAll: the steps in index order (idx is the
\* 0-based index of the code, outs[idx + 1] the output of that step)
RECURSIVE substituteOutputs(_, _, _, _)
substituteOutputs(result, outs, idx, currentStepIndex) ==
    IF idx >= Len(outs) THEN result
    ELSE substituteOutputs(
           IF idx < currentStepIndex /\ Truthy(outs[idx + 1])
           THEN join(split(result, Placeholder(OutputKey[idx + 1])), outs[idx + 1])
           ELSE result,
           outs, idx + 1, currentStepIndex)

\* substituteAll(text, currentStepIndex) with the two closure variables it
\* reads made explicit: globals = globalVariables (sequence of entries),
\* outs = the `output` of every element of steps
substituteAll(text, currentStepIndex, globals, outs) ==
    substituteOutputs(substituteGlobals(chars(text), globals), outs, 0, currentStepIndex)


\* substituteVars(text) of the prompt tester, with the closure variable it
\* reads made explicit: the one forEach over the entries of `variables`
substituteVars(text, variables) == substituteGlobals(chars(text), variables)

\* a request text with the instruction before the role; used to show that
\* C16 depends on the order of the fields in the template literal
fullPromptSwapped(data, i, globals, outs) ==
    Str("Instruction: ")     \o substituteAll(data.instruction, i, globals, outs)
 \o Str("\nRole: ")          \o substituteAll(data.role, i, globals, outs)
 \o Str("\nContext: ")       \o substituteAll(data.context, i, globals, outs)
 \o Str("\nConstraints: ")   \o substituteAll(data.constraints, i, globals, outs)
 \o Str("\nEvaluation: ")    \o substituteAll(data.evaluation, i, globals, outs)

\* the template literal of runChain: the five fields, each resolved by
\* substituteAll, under the labels Role / Instruction / Context /
\* Constraints / Evaluation
fullPromptOf(data, i, globals, outs) ==
    Str("Role: ")            \o substituteAll(data.role, i, globals, outs)
 \o Str("\nInstruction: ")   \o substituteAll(data.instruction, i, globals, outs)
 \o Str("\nContext: ")       \o substituteAll(data.context, i, globals, outs)
 \o Str("\nConstraints: ")   \o substituteAll(data.constraints, i, globals, outs)
 \o Str("\nEvaluation: ")    \o substituteAll(data.evaluation, i, globals, outs)

\* ------------------------------------------------------------- the state
\* ------------------------------------------------------ the prompt tester
\* getSystemInstruction(data) of the prompt tester (ChatBot.tsx), with the
\* closure variable `variables` made explicit
getSystemInstruction(data, variables) ==
    Str("# SYSTEM INSTRUCTION\n## ROLE\n")  \o substituteVars(data.role, variables)
 \o Str("\n\n## PRIMARY TASK\n")            \o substituteVars(data.instruction, variables)
 \o Str("\n\n## CONTEXT\n")                 \o substituteVars(data.context, variables)
 \o Str("\n\n## CONSTRAINTS & RULES\n")     \o substituteVars(data.constraints, variables)
 \o Str("\n\n## SUCCESS CRITERIA\n")        \o substituteVars(data.evaluation, variables)

\* getFullPrompt(data) of the earlier prompt tester
getFullPrompt(data, variables) ==
    Str("Role: ")            \o substituteVars(data.role, variables)
 \o Str("\nInstruction: ")   \o substituteVars(data.instruction, variables)
 \o Str("\nContext: ")       \o substituteVars(data.context, variables)
 \o Str("\nConstraints: ")   \o substituteVars(data.constraints, variables)
 \o Str("\nEvaluation: ")    \o substituteVars(data.evaluation, variables)

\* the keys of a RiccePrompt in the order its literals and its type give:
\* the key order of the object App creates
FieldOrder == <<"role", "instruction", "context", "constraints", "evaluation">>

\* Object.values(promptData).join(' ') for a key order
RECURSIVE joinValues(_, _)
joinValues(data, order) ==
    IF order = <<>> THEN <<>>
    ELSE IF Len(order) = 1 THEN chars(data[order[1]])
    ELSE chars(data[order[1]]) \o Str(" ") \o joinValues(data, Tail(order))

\* the line break of the model's texts
NL == "\n"

\* the line terminators, which `.` of a regular expression without the s
\* flag does not match: line feed, carriage return, U+2028 and U+2029 (the
\* last two cannot be written in a string of this module: no text of the
\* model holds them)
LineTerminators == {NL, "\r"}

\* /{{(.*?)}}/ matched at position p of the characters cs: the index of the
\* second brace of the first `}}` after the opening `{{` with no line
\* terminator in between, 0 when there is no match at p
matchEndIn(cs, p) ==
    IF ~(p + 1 <= Len(cs) /\ cs[p] = L /\ cs[p + 1] = L) THEN 0
    ELSE LET ends == { q \in (p + 2)..(Len(cs) - 1) :
                         /\ cs[q] = R /\ cs[q + 1] = R
                         /\ \A k \in (p + 2)..(q - 1) : cs[k] \notin LineTerminators }
         IN IF ends = {} THEN 0
            ELSE 1 + CHOOSE q \in ends : \A q2 \in ends : q <= q2

matchEndAt(s, p) == matchEndIn(chars(s), p)

\* the matches of /{{(.*?)}}/g in the characters cs from position p on,
\* from left to right, none overlapping another
RECURSIVE matchAllIn(_, _)
matchAllIn(cs, p) ==
    LET starts == { q \in p..Len(cs) : matchEndIn(cs, q) # 0 }
    IN IF starts = {} THEN <<>>
       ELSE LET q == CHOOSE q1 \in starts : \A q2 \in starts : q1 <= q2
            IN <<SubSeq(cs, q, matchEndIn(cs, q))>> \o matchAllIn(cs, matchEndIn(cs, q) + 1)

\* String.prototype.match(/{{(.*?)}}/g)
matchAll(s, p) == matchAllIn(chars(s), p)

\* v.replace(/[{}]/g, '')
RECURSIVE stripBraces(_)
stripBraces(v) ==
    LET cs == chars(v)
    IN IF cs = <<>> THEN <<>>
       ELSE (IF cs[1] \in {L, R} THEN <<>> ELSE <<cs[1]>>) \o stripBraces(Tail(cs))

\* .map(v => v.replace(/[{}]/g, '')) over the matches
RECURSIVE mapStrip(_)
mapStrip(ms) ==
    IF ms = <<>> THEN <<>> ELSE <<stripBraces(ms[1])>> \o mapStrip(Tail(ms))

\* Array.from(new Set(array)): the elements in the order of their first
\* occurrence, each once
RECURSIVE arrayFromSet(_, _)
arrayFromSet(seq, seen) ==
    IF seq = <<>> THEN <<>>
    ELSE IF seq[1] \in seen THEN arrayFromSet(Tail(seq), seen)
         ELSE <<seq[1]>> \o arrayFromSet(Tail(seq), seen \cup {seq[1]})

\* detectedVars of the prompt tester for the object promptData, given as its
\* values and the order in which its keys were inserted, which is the order
\* of Object.values (`match` returns null when nothing matches: `|| []`)
detectedVars(data, keys) ==
    arrayFromSet(mapStrip(matchAll(joinValues(data, keys), 1)), {})

VARIABLES
    heap,             \* reference -> step object (or FreeObj)
    steps,            \* useState<PromptChainStep[]>: sequence of references
    isRunning,        \* useState(false)
    globalVariables,  \* useState<Record<string,string>>: entries in key order
    updatedSteps,     \* runChain's local array (= the `steps` its closure holds)
    closureGlobals,   \* the globalVariables the running runChain closed over
    i,                \* runChain's loop index (0-based, as in the code)
    pc,               \* "idle", or "await": suspended in `await testPrompt`
    request,          \* the adapter calls of the latest run, in issue order
    nextId,           \* stands for crypto.randomUUID(): a fresh id each time
    runs,             \* runs started so far
    chunksLeft,       \* chunks the adapter may still deliver
    edits,            \* user edits made so far
    call,             \* a direct call of substituteAll: its arguments
    ret,              \* ... and what it returned
    settled,          \* the promise runChain() returned for the latest run
    stream,           \* one call of testPrompt, seen from inside the adapter
    tester,           \* PromptTester: its React state and its calls in flight
    builder           \* PromptBuilder: the prompt and its undo history

vars == <<heap, steps, isRunning, globalVariables, updatedSteps, closureGlobals,
          i, pc, request, nextId, runs, chunksLeft, edits, call, ret, settled,
          stream, tester, builder>>

Fields == {"role", "instruction", "context", "constraints", "evaluation"}

Refs == 1..(2 * MaxSteps + 1)

FreeObj == [status |-> "free"]

\* the references an array holds
Range(seq) == {seq[k] : k \in 1..Len(seq)}

\* a reference no array points to
NewRef(h) == CHOOSE r \in Refs : h[r] = FreeObj

\* the references of seq in the order of their first occurrence
RECURSIVE Distinct(_, _)
Distinct(seq, seen) ==
    IF seq = <<>> THEN <<>>
    ELSE IF seq[1] \in seen THEN Distinct(Tail(seq), seen)
         ELSE <<seq[1]>> \o Distinct(Tail(seq), seen \cup {seq[1]})

\* The new values of the object store and of the two arrays that refer to
\* it.  Objects no array refers to are dropped, and the references are
\* renumbered in order of first use (a reference has no meaning but its
\* identity): stepsArr is the new React state, runArr the array a suspended
\* runChain holds (<<>> when none is suspended).
Commit(h, stepsArr, runArr) ==
    LET ord == Distinct(runArr \o stepsArr, {})
        pos(r) == CHOOSE k \in 1..Len(ord) : ord[k] = r
    IN /\ heap' = [r \in Refs |-> IF r <= Len(ord) THEN h[ord[r]] ELSE FreeObj]
       /\ steps' = [k \in 1..Len(stepsArr) |-> pos(stepsArr[k])]
       /\ updatedSteps' = [k \in 1..Len(runArr) |-> pos(runArr[k])]

\* steps.map(s => s.output) of an array of references
Outputs(h, arr) == [k \in 1..Len(arr) |-> h[arr[k]].output]

\* the step the initial useState of PromptChainer holds
FirstStep ==
    [ id     |-> 1,
      name   |-> Str("Stage 1: Foundation"),
      promptData |->
        [ role        |-> Str("Expert Researcher"),
          instruction |-> Str("Synthesize the core themes of ") \o Placeholder("topic") \o Str("."),
          context     |-> Str("Preparing a high-level briefing."),
          constraints |-> Str("Max 3 bullet points."),
          evaluation  |-> Str("Clear, concise synthesis.") ],
      status |-> "idle",
      output |-> undefined ]

\* the step addStep appends when the chain holds prevStepIndex steps
NewStep(id, prevStepIndex) ==
    [ id     |-> id,
      name   |-> Str("Stage ") \o Str(NumStr[prevStepIndex + 1]) \o Str(": Expansion"),
      promptData |->
        [ role        |-> Str("Creative Director"),
          instruction |-> Str("Based on Stage ") \o Str(NumStr[prevStepIndex])
                          \o Str(" output, expand on the third theme: ")
                          \o Placeholder(OutputKey[prevStepIndex]) \o Str("."),
          context     |-> Str("Turning research into a creative campaign."),
          constraints |-> Str("Narrative tone."),
          evaluation  |-> Str("Compelling storytelling.") ],
      status |-> "idle",
      output |-> undefined ]

\* what a direct call of a resolver is when there is none
NoCall == [fn |-> "none", text |-> <<>>, currentStepIndex |-> 0, globals |-> <<>>, outs |-> <<>>]

\* the value of ret before the call has returned
NotReturned == <<"<not returned>">>

\* no call of testPrompt has been made
NoStream ==
    [state |-> "none", source |-> <<>>, ending |-> "end", pos |-> 0, delivered |-> <<>>]

\* PromptTester after its first render: the useState initial values, no
\* test started, no call in flight
TesterInit ==
    [ outputA |-> <<>>, outputB |-> <<>>,
      isLoadingA |-> FALSE, isLoadingB |-> FALSE,
      isComparisonMode |-> FALSE,
      history |-> <<>>,
      mounted |-> FALSE,      \* has the effect that loads the stored history run
      tests |-> 0,            \* tests started so far
      awaiting |-> <<>>,      \* <<the runTest suspended in `await Promise.all`>>
      calls |-> {},           \* the calls of testPrompt in flight or awaited
      deletes |-> 0 ]         \* entries deleted from the history so far

\* PromptBuilder after its first render: history = [data], historyIndex = 0.
\* A prompt is stood for by a version number, the initial prompt by 0.
BuilderInit ==
    [ data |-> 0,
      history |-> <<0>>,
      historyIndex |-> 0,
      isInternalChange |-> FALSE,
      timer |-> <<>>,         \* the pending debounce timeout: <<>> or <<closure>>
      nextVersion |-> 1,      \* the prompt the next edit produces
      undos |-> 0,            \* clicks on undo and redo so far
      reedits |-> 0 ]         \* edits made while an edit was waiting, so far

InitChain ==
    /\ stream = NoStream
    /\ tester = TesterInit
    /\ builder = BuilderInit
    /\ settled = "none"
    /\ heap = [r \in Refs |-> IF r = 1 THEN FirstStep ELSE FreeObj]
    /\ steps = <<1>>
    /\ isRunning = FALSE
    /\ globalVariables = << [key |-> "topic",
                             val |-> Str("Artificial Intelligence and Human Creativity")] >>
    /\ updatedSteps = <<>>
    /\ closureGlobals = <<>>
    /\ i = 0
    /\ pc = "idle"
    /\ request = <<>>
    /\ nextId = 2
    /\ runs = 0
    /\ chunksLeft = MaxChunks
    /\ edits = 0

Init ==
    /\ InitChain
    /\ call = NoCall
    /\ ret = NotReturned

\* ------------------------------------------------------- the user's edits
\* the texts the user types into a field, a name or a variable in this model
FieldValues == { Placeholder("output_1") \o Placeholder("topic") }
NameValues  == { Str("Renamed") }
GlobalValues == { Placeholder("output_1") }

\* the ids of the steps on screen
ShownIds == {heap[steps[k]].id : k \in 1..Len(steps)}

\* the index (1-based) in arr of the step with this id
IndexOfId(h, arr, id) == CHOOSE k \in 1..Len(arr) : h[arr[k]].id = id

\* steps.filter(s => s.id !== id): the elements that pass, in their order
RECURSIVE filterOut(_, _, _)
filterOut(h, arr, id) ==
    IF arr = <<>> THEN <<>>
    ELSE IF h[arr[1]].id # id
         THEN <<arr[1]>> \o filterOut(h, Tail(arr), id)
         ELSE filterOut(h, Tail(arr), id)

\* steps.map(s => s.id === id ? obj : s): the matching step becomes a new
\* object, the others stay the objects they were
mapStep(h, arr, id, obj) ==
    LET r == NewRef(h)
    IN [heap |-> [h EXCEPT ![r] = obj],
        steps |-> [arr EXCEPT ![IndexOfId(h, arr, id)] = r]]

addStep ==
    /\ ~isRunning                       \* the button is disabled={isRunning}
    /\ Len(steps) < MaxSteps
    /\ LET r == NewRef(heap)
       IN Commit([heap EXCEPT ![r] = NewStep(nextId, Len(steps))],
                 Append(steps, r), updatedSteps)
    /\ nextId' = nextId + 1
    /\ UNCHANGED <<isRunning, globalVariables, closureGlobals, i, pc,
                   request, runs, chunksLeft, edits, call, ret, settled,
                   stream, tester, builder>>

\* removeStep without the test of steps.length; used to show that C27
\* depends on the guard
removeStepUnguarded(id) ==
    /\ edits < MaxEdits
    /\ id \in ShownIds
    /\ Commit(heap, filterOut(heap, steps, id), updatedSteps)
    /\ edits' = edits + 1
    /\ UNCHANGED <<isRunning, globalVariables, closureGlobals, i, pc,
                   request, nextId, runs, chunksLeft, call, ret, settled,
                   stream, tester, builder>>

removeStep(id) ==
    /\ edits < MaxEdits
    /\ id \in ShownIds                  \* the button of a rendered step
    /\ Len(steps) > 1
    /\ Commit(heap, filterOut(heap, steps, id), updatedSteps)
    /\ edits' = edits + 1
    /\ UNCHANGED <<isRunning, globalVariables, closureGlobals, i, pc,
                   request, nextId, runs, chunksLeft, call, ret, settled,
                   stream, tester, builder>>

\* an edit that assigns the field in the step object itself instead of
\* building a copy (s.promptData[field] = value; setSteps([...steps])); used
\* to show that C24 depends on the copies updateStepField makes
updateStepFieldInPlace(id, field, value) ==
    /\ edits < MaxEdits
    /\ id \in ShownIds
    /\ LET r == steps[IndexOfId(heap, steps, id)]
       IN Commit([heap EXCEPT ![r].promptData[field] = value], steps, updatedSteps)
    /\ edits' = edits + 1
    /\ UNCHANGED <<isRunning, globalVariables, closureGlobals, i, pc,
                   request, nextId, runs, chunksLeft, call, ret, settled,
                   stream, tester, builder>>

updateStepField(id, field, value) ==
    /\ edits < MaxEdits
    /\ id \in ShownIds
    /\ LET s == heap[steps[IndexOfId(heap, steps, id)]]
           m == mapStep(heap, steps, id, [s EXCEPT !.promptData[field] = value])
       IN Commit(m.heap, m.steps, updatedSteps)
    /\ edits' = edits + 1
    /\ UNCHANGED <<isRunning, globalVariables, closureGlobals, i, pc,
                   request, nextId, runs, chunksLeft, call, ret, settled,
                   stream, tester, builder>>

\* a rename that builds the step anew, without the `...s` that carries
\* status and output over; used to show that C20 depends on the spread
updateStepNameResets(id, name) ==
    /\ edits < MaxEdits
    /\ id \in ShownIds
    /\ LET s == heap[steps[IndexOfId(heap, steps, id)]]
           m == mapStep(heap, steps, id,
                        [s EXCEPT !.name = name, !.status = "idle", !.output = undefined])
       IN Commit(m.heap, m.steps, updatedSteps)
    /\ edits' = edits + 1
    /\ UNCHANGED <<isRunning, globalVariables, closureGlobals, i, pc,
                   request, nextId, runs, chunksLeft, call, ret, settled,
                   stream, tester, builder>>

updateStepName(id, name) ==
    /\ edits < MaxEdits
    /\ id \in ShownIds
    /\ LET s == heap[steps[IndexOfId(heap, steps, id)]]
           m == mapStep(heap, steps, id, [s EXCEPT !.name = name])
       IN Commit(m.heap, m.steps, updatedSteps)
    /\ edits' = edits + 1
    /\ UNCHANGED <<isRunning, globalVariables, closureGlobals, i, pc,
                   request, nextId, runs, chunksLeft, call, ret, settled,
                   stream, tester, builder>>

\* onChange of a Logic Injector input: {...globalVariables, [key]: value}
\* for a key the object already has (its position is kept)
setGlobalVariable(k, value) ==
    /\ edits < MaxEdits
    /\ k \in 1..Len(globalVariables)
    /\ globalVariables' = [globalVariables EXCEPT ![k].val = value]
    /\ edits' = edits + 1
    /\ UNCHANGED <<heap, steps, isRunning, updatedSteps, closureGlobals, i, pc,
                   request, nextId, runs, chunksLeft, call, ret, settled,
                   stream, tester, builder>>

\* ------------------------------------------------- the adapter: testPrompt
\* responseChunk.text of the chunks the stream may yield in this model; a
\* chunk without text arrives as "" (responseChunk.text || "")
Chunks == { Str("S"), Placeholder("output_2"), <<>> }

\* the start of a turn of the loop without `updatedSteps[i].output = ''`;
\* used to show that C9 depends on that assignment
beginStageNoClear(h, arr, idx, globals, log) ==
    LET r  == arr[idx + 1]
        h1 == [h EXCEPT ![r].status = "running"]
        fullPrompt == fullPromptOf(h1[r].promptData, idx, globals, Outputs(h1, arr))
    IN /\ Commit(h1, arr, arr)
       /\ i' = idx
       /\ pc' = "await"
       /\ request' = Append(log, [stage |-> idx, id |-> h[r].id,
                                  fullPrompt |-> fullPrompt,
                                  chunks |-> <<>>, state |-> "pending"])

\* ---------------------------------------------------------------- runChain
\* One turn of the for loop up to the point where it suspends: the step is
\* marked running with output '', the state is set, the prompt is built from
\* the closure's steps and globalVariables, and testPrompt issues the call.
beginStage(h, arr, idx, globals, log) ==
    LET r  == arr[idx + 1]
        h1 == [h EXCEPT ![r].status = "running", ![r].output = <<>>]
        fullPrompt == fullPromptOf(h1[r].promptData, idx, globals, Outputs(h1, arr))
    IN /\ Commit(h1, arr, arr)
       /\ i' = idx
       /\ pc' = "await"
       /\ request' = Append(log, [stage |-> idx, id |-> h[r].id,
                                  fullPrompt |-> fullPrompt,
                                  chunks |-> <<>>, state |-> "pending"])

\* a run that resumes at the first step that is not completed instead of
\* starting at index 0; used to show that C15 depends on `let i = 0`
runChainResumes ==
    /\ ~isRunning
    /\ runs < MaxRuns
    /\ runs' = runs + 1
    /\ isRunning' = TRUE
    /\ closureGlobals' = globalVariables
    /\ LET todo  == {k \in 1..Len(steps) : heap[steps[k]].status # "completed"}
           first == IF todo = {} THEN 1
                    ELSE CHOOSE k \in todo : \A j \in todo : k <= j
       IN beginStage(heap, steps, first - 1, globalVariables, <<>>)
    /\ UNCHANGED <<globalVariables, nextId, chunksLeft, edits, call, ret,
                   stream, tester, builder>>
    /\ settled' = "pending"

\* onClick of the run button
runChain ==
    /\ ~isRunning                       \* the button is disabled={isRunning}
    /\ runs < MaxRuns
    /\ runs' = runs + 1
    /\ isRunning' = TRUE
    /\ closureGlobals' = globalVariables
    /\ beginStage(heap, steps, 0, globalVariables, <<>>)
    /\ UNCHANGED <<globalVariables, nextId, chunksLeft, edits, call, ret,
                   stream, tester, builder>>
    /\ settled' = "pending"                \* an async function returns a promise

\* the stream yields a chunk: testPrompt calls onChunk
onChunk(chunk) ==
    /\ pc = "await"
    /\ chunksLeft > 0
    /\ chunksLeft' = chunksLeft - 1
    /\ LET r   == updatedSteps[i + 1]
           old == IF Truthy(heap[r].output) THEN heap[r].output ELSE <<>>
       IN Commit([heap EXCEPT ![r].output = old \o chunk], updatedSteps, updatedSteps)
    /\ request' = [request EXCEPT ![Len(request)].chunks = Append(@, chunk)]
    /\ UNCHANGED <<isRunning, globalVariables, closureGlobals, i, pc,
                   nextId, runs, edits, call, ret, settled,
                   stream, tester, builder>>

\* the stream is exhausted: `await testPrompt` returns
streamResolves ==
    /\ pc = "await"
    /\ LET r   == updatedSteps[i + 1]
           h1  == [heap EXCEPT ![r].status = "completed"]
           log == [request EXCEPT ![Len(request)].state = "resolved"]
       IN IF i + 1 < Len(updatedSteps)
          THEN /\ beginStage(h1, updatedSteps, i + 1, closureGlobals, log)
               /\ UNCHANGED <<isRunning, closureGlobals>>
          ELSE /\ Commit(h1, updatedSteps, <<>>)
               /\ request' = log
               /\ isRunning' = FALSE
               /\ pc' = "idle"
               /\ i' = 0
               /\ closureGlobals' = <<>>
    /\ UNCHANGED <<globalVariables, nextId, runs, chunksLeft, edits, call, ret,
                   stream, tester, builder>>
    /\ settled' = IF i + 1 < Len(updatedSteps) THEN settled ELSE "fulfilled(undefined)"

\* a catch block that returns instead of breaking, so that
\* setIsRunning(false) is not reached; used to show that C11 depends on the
\* run state being reset after a failure
streamRejectsReturns ==
    /\ pc = "await"
    /\ LET r == updatedSteps[i + 1]
       IN Commit([heap EXCEPT ![r].status = "error"], steps, <<>>)
    /\ request' = [request EXCEPT ![Len(request)].state = "rejected"]
    /\ pc' = "idle"
    /\ i' = 0
    /\ closureGlobals' = <<>>
    /\ settled' = "fulfilled(undefined)"
    /\ UNCHANGED <<isRunning, globalVariables, nextId, runs, chunksLeft, edits, call, ret,
                   stream, tester, builder>>

\* generateContentStream or the iteration of the stream throws:
\* `await testPrompt` rejects, the catch block marks the step and breaks
streamRejects ==
    /\ pc = "await"
    /\ LET r == updatedSteps[i + 1]
       IN Commit([heap EXCEPT ![r].status = "error"], steps, <<>>)
    /\ request' = [request EXCEPT ![Len(request)].state = "rejected"]
    /\ isRunning' = FALSE
    /\ pc' = "idle"
    /\ i' = 0
    /\ closureGlobals' = <<>>
    /\ UNCHANGED <<globalVariables, nextId, runs, chunksLeft, edits, call, ret,
                   stream, tester, builder>>
    /\ settled' = "fulfilled(undefined)"   \* the function ends, no return, no throw

\* ------------------------------------------------------- specifications
\* an edit of the chain or of the variables: the delete button, the
\* textareas, the name input and the Logic Injector inputs, none of which is
\* disabled while a run is in progress
Edit ==
    \/ \E id \in ShownIds : removeStep(id)
    \/ \E id \in ShownIds, f \in Fields, v \in FieldValues : updateStepField(id, f, v)
    \/ \E id \in ShownIds, n \in NameValues : updateStepName(id, n)
    \/ \E k \in 1..Len(globalVariables), v \in GlobalValues : setGlobalVariable(k, v)

\* The chain view as the user can drive it, with the executor and its
\* adapter: the user builds the chain with addStep, runs it and edits it,
\* also while a run is in progress (only the two buttons addStep and
\* runChain are disabled then); between two runs the chain keeps what the
\* last run left in it.
Next ==
    \/ addStep
    \/ runChain
    \/ \E c \in Chunks : onChunk(c)
    \/ streamResolves
    \/ streamRejects
    \/ Edit

Spec == Init /\ [][Next]_vars

\* Spec with the adapter's calls ending: testPrompt's promise is settled,
\* one way or the other, whenever runChain awaits it
SpecFair == Init /\ [][Next]_vars /\ WF_vars(streamRejects \/ streamResolves)


\* ------------------------------------ substituteAll called on its own
\* The arguments of a call are drawn from small sets.  A text is made of at
\* most MaxParts pieces; the chain the call sees has at most MaxOut steps, of
\* which the steps before currentStepIndex have completed (their output is a
\* string, possibly ""), the step at currentStepIndex has just been cleared
\* (runChain sets output = '' before it builds the prompt) and the later
\* steps hold nothing or what an earlier run left.
Pieces == { Str("x"), <<L>>, Placeholder("topic"), Placeholder("output_1"),
            Placeholder("output_2"), Placeholder("missing") }

RECURSIVE TextsOf(_)
TextsOf(n) ==
    IF n = 0 THEN { <<>> }
    ELSE LET T == TextsOf(n - 1) IN T \cup { t \o q : t \in T, q \in Pieces }

\* the texts the user types as the value of a variable: nothing, plain
\* text, a placeholder
GlobalVals == { <<>>, Str("G"), Placeholder("output_1") }

\* globalVariables of the chain view as substituteAll reads it: the one key
\* `topic` of its initial value (no control adds or removes a key), with
\* the value the user has typed
GlobalsOf == { <<[key |-> "topic", val |-> v]>> : v \in GlobalVals }

\* `variables` of the prompt tester as substituteVars reads it: an entry for
\* every detected name the user has typed a value for, in the order of the
\* first typing; {} before any typing
VariableKeys == { "topic", "output_1" }
VariableEntries == [key : VariableKeys, val : GlobalVals]

VariablesOf ==
    { <<>> } \cup { <<e>> : e \in VariableEntries }
             \cup { ef \in VariableEntries \X VariableEntries : ef[1].key # ef[2].key }

OutputVals == { <<>>, Str("S"), Placeholder("output_2") }

OutsOf(len, idx) ==
    { o \in [1..len -> OutputVals \cup {undefined}] :
        /\ \A k \in 1..idx : o[k] # undefined
        /\ o[idx + 1] = <<>> }

\* a text in which a placeholder forms only when a value is put into it:
\* `{{out{{topic}}}}` with topic = `put_1` reads `{{output_1}}` after the
\* first forEach
SplicedTexts == { Str("{{out{{topic}}}}") }
SplicedGlobals == { <<[key |-> "topic", val |-> Str("put_1")]>> }
SplicedVariables ==
    { <<[key |-> "output_1", val |-> Str("G")], [key |-> "topic", val |-> Str("put_1")]>> }

InitSub ==
    /\ InitChain
    /\ \/ \E idx \in 0..(MaxOut - 1) :
            \E len \in (idx + 1)..MaxOut :
              \E t \in TextsOf(MaxParts), g \in GlobalsOf, o \in OutsOf(len, idx) :
                call = [fn |-> "substituteAll", text |-> t, currentStepIndex |-> idx,
                        globals |-> g, outs |-> o]
       \/ \E t \in TextsOf(MaxParts), g \in VariablesOf :
            call = [fn |-> "substituteVars", text |-> t, currentStepIndex |-> 0,
                    globals |-> g, outs |-> <<>>]
       \/ \E t \in SplicedTexts, g \in SplicedVariables :
            call = [fn |-> "substituteVars", text |-> t, currentStepIndex |-> 0,
                    globals |-> g, outs |-> <<>>]
       \/ \E idx \in 0..(MaxOut - 1) :
            \E len \in (idx + 1)..MaxOut :
              \E t \in SplicedTexts, g \in SplicedGlobals, o \in OutsOf(len, idx) :
                call = [fn |-> "substituteAll", text |-> t, currentStepIndex |-> idx,
                        globals |-> g, outs |-> o]
    /\ ret = NotReturned

callSubstituteAll ==
    /\ call.fn = "substituteAll"
    /\ ret = NotReturned
    /\ ret' = substituteAll(call.text, call.currentStepIndex, call.globals, call.outs)
    /\ UNCHANGED <<heap, steps, isRunning, globalVariables, updatedSteps, closureGlobals,
                   i, pc, request, nextId, runs, chunksLeft, edits, call, settled,
                   stream, tester, builder>>

callSubstituteVars ==
    /\ call.fn = "substituteVars"
    /\ ret = NotReturned
    /\ ret' = substituteVars(call.text, call.globals)
    /\ UNCHANGED <<heap, steps, isRunning, globalVariables, updatedSteps, closureGlobals,
                   i, pc, request, nextId, runs, chunksLeft, edits, call, settled,
                   stream, tester, builder>>

NextSub == callSubstituteAll \/ callSubstituteVars

SpecSub == InitSub /\ [][NextSub]_vars


\* --------------------------------- calls on a prompt, one by one
\* The functions that read a whole RiccePrompt, each called once on inputs
\* drawn from small sets: detectedVars and getSystemInstruction of the
\* prompt tester, getFullPrompt of its earlier version, and the template
\* literal of runChain.
FieldTexts ==
    { <<>>,
      Str("Hi ") \o Placeholder("topic"),
      Placeholder("topic") \o Str(" and ") \o Placeholder("y"),
      Str("a{{"),
      Str("z}}"),
      Str("{{topic\ny}}"),
      Str("{{a\ry}}") }

PromptDatas ==
    [role : FieldTexts, instruction : FieldTexts, context : FieldTexts,
     constraints : FieldTexts, evaluation : FieldTexts]

\* values of the tester's `variables` (one input per detected name)
TesterVariables ==
    { <<>>,
      <<[key |-> "topic", val |-> Str("1")]>>,
      <<[key |-> "topic", val |-> Placeholder("y")], [key |-> "y", val |-> Str("2")]>> }

\* states of the chain in which runChain builds the prompt of a step
ChainScopes ==
    { [currentStepIndex |-> 0, globals |-> <<[key |-> "topic", val |-> Str("1")]>>,
       outs |-> <<<<>>>>],
      [currentStepIndex |-> 1, globals |-> <<[key |-> "topic", val |-> Str("1")]>>,
       outs |-> <<Str("S"), <<>>>>],
      [currentStepIndex |-> 1,
       globals |-> <<[key |-> "topic", val |-> Placeholder("output_1")]>>,
       outs |-> <<Str("S"), <<>>>>] }

\* key orders of the promptData the tester is given: the order of App's
\* literal, kept by every `{...prev, [field]: value}`, and the orders of an
\* object that refinePrompt got from JSON.parse, which are those of the keys
\* in the answer (alphabetical, reversed, instruction first)
KeyOrders ==
    { FieldOrder,
      <<"constraints", "context", "evaluation", "instruction", "role">>,
      <<"evaluation", "constraints", "context", "instruction", "role">>,
      <<"instruction", "role", "context", "constraints", "evaluation">> }

\* `keys` is the key order of the object `data`; only detectedVars reads
\* it, the other functions read the fields by name
PromptCall(fn, data, keys, variables, scope) ==
    [fn |-> fn, data |-> data, keys |-> keys, variables |-> variables,
     currentStepIndex |-> scope.currentStepIndex, globals |-> scope.globals,
     outs |-> scope.outs]

NoScope == [currentStepIndex |-> 0, globals |-> <<>>, outs |-> <<>>]

InitPrompt ==
    /\ InitChain
    /\ \E d \in PromptDatas :
         \/ \E o \in KeyOrders : call = PromptCall("detectedVars", d, o, <<>>, NoScope)
         \/ \E v \in TesterVariables :
              \E fn \in {"getSystemInstruction", "getFullPrompt"} :
                call = PromptCall(fn, d, FieldOrder, v, NoScope)
         \/ \E sc \in ChainScopes : call = PromptCall("fullPrompt", d, FieldOrder, <<>>, sc)
    /\ ret = NotReturned

returns(fn, value) ==
    /\ call.fn = fn
    /\ ret = NotReturned
    /\ ret' = value
    /\ UNCHANGED <<heap, steps, isRunning, globalVariables, updatedSteps, closureGlobals,
                   i, pc, request, nextId, runs, chunksLeft, edits, call, settled,
                   stream, tester, builder>>

callDetectedVars == returns("detectedVars", detectedVars(call.data, call.keys))

callGetSystemInstruction ==
    returns("getSystemInstruction", getSystemInstruction(call.data, call.variables))

callGetFullPrompt == returns("getFullPrompt", getFullPrompt(call.data, call.variables))

callFullPrompt ==
    returns("fullPrompt",
            fullPromptOf(call.data, call.currentStepIndex, call.globals, call.outs))

NextPrompt ==
    \/ callDetectedVars
    \/ callGetSystemInstruction
    \/ callGetFullPrompt
    \/ callFullPrompt

SpecPrompt == InitPrompt /\ [][NextPrompt]_vars

\* ------------------------------------------------------------ testPrompt
\* One call of testPrompt seen from inside: the source stream the SDK
\* returns is a sequence of response chunks, each with a text or without
\* one, that ends normally or by throwing.

\* every variable but stream
othersThanStream ==
    <<heap, steps, isRunning, globalVariables, updatedSteps, closureGlobals,
      i, pc, request, nextId, runs, chunksLeft, edits, call, ret, settled,
      tester, builder>>

\* the response chunks a source may produce: a text, the empty text, no text
ResponseChunks == { [text |-> Str("S")], [text |-> Str("T")], [text |-> <<>>],
                    [text |-> undefined] }

\* the sources of at most n chunks
RECURSIVE SourcesOf(_)
SourcesOf(n) ==
    IF n = 0 THEN {<<>>}
    ELSE SourcesOf(n - 1) \cup
         {Append(s, c) : s \in {t \in SourcesOf(n - 1) : Len(t) = n - 1},
                         c \in ResponseChunks}

\* responseChunk.text || ""
textOr(responseChunk) ==
    IF Truthy(responseChunk.text) THEN responseChunk.text ELSE <<>>

\* testPrompt(fullPrompt, onChunk, ...) is called: it asks for the stream
callTestPrompt(source, ending) ==
    /\ stream.state = "none"
    /\ stream' = [NoStream EXCEPT !.state = "opening", !.source = source,
                                  !.ending = ending]
    /\ UNCHANGED othersThanStream

\* getAiClient or `await generateContentStream` throws: the call rejects
generateContentStreamThrows ==
    /\ stream.state = "opening"
    /\ stream' = [stream EXCEPT !.state = "rejected"]
    /\ UNCHANGED othersThanStream

\* `await generateContentStream` returns the stream
generateContentStreamReturns ==
    /\ stream.state = "opening"
    /\ stream' = [stream EXCEPT !.state = "iterating"]
    /\ UNCHANGED othersThanStream

\* a turn of the loop that hands the chunks over newest first; used to show
\* that C21 depends on the order of the calls of onChunk
streamYieldsNewestFirst ==
    /\ stream.state = "iterating"
    /\ stream.pos < Len(stream.source)
    /\ stream' = [stream EXCEPT
                    !.pos = @ + 1,
                    !.delivered = <<textOr(stream.source[stream.pos + 1])>> \o @]
    /\ UNCHANGED othersThanStream

\* a turn of `for await (const chunk of stream)`: onChunk(text || "")
streamYields ==
    /\ stream.state = "iterating"
    /\ stream.pos < Len(stream.source)
    /\ stream' = [stream EXCEPT
                    !.pos = @ + 1,
                    !.delivered = Append(@, textOr(stream.source[stream.pos + 1]))]
    /\ UNCHANGED othersThanStream

\* the source is exhausted: the loop ends and the async function returns
streamEnds ==
    /\ stream.state = "iterating"
    /\ stream.pos = Len(stream.source)
    /\ stream.ending = "end"
    /\ stream' = [stream EXCEPT !.state = "resolved"]
    /\ UNCHANGED othersThanStream

\* the source throws instead of producing its next chunk: the exception
\* leaves the loop and the async function, the call rejects
streamThrows ==
    /\ stream.state = "iterating"
    /\ stream.pos = Len(stream.source)
    /\ stream.ending = "throw"
    /\ stream' = [stream EXCEPT !.state = "rejected"]
    /\ UNCHANGED othersThanStream

NextStream ==
    \/ \E s \in SourcesOf(MaxChunks), e \in {"end", "throw"} : callTestPrompt(s, e)
    \/ generateContentStreamThrows
    \/ generateContentStreamReturns
    \/ streamYields
    \/ streamEnds
    \/ streamThrows

SpecStream == Init /\ [][NextStream]_vars

\* ---------------------------------------------------------- PromptTester
\* The prompt tester (ChatBot.tsx).  A test starts one call of testPrompt,
\* two in comparison mode; the calls stream concurrently and runTest awaits
\* Promise.all of them.  The text of a chunk names the call that produced
\* it and its position in that call's stream.

\* every variable but tester
othersThanTester ==
    <<heap, steps, isRunning, globalVariables, updatedSteps, closureGlobals,
      i, pc, request, nextId, runs, chunksLeft, edits, call, ret, settled,
      stream, builder>>

\* [historyItem, ...prev].slice(0, 50)
HistoryLimit == 50

\* the text of the n-th chunk of the call of pane p of test t
chunkOf(t, p, n) == <<p, NumStr[t], NumStr[n]>>

\* the first n chunks of the call of pane p of test t, concatenated in order
RECURSIVE ChunksOf(_, _, _)
ChunksOf(t, p, n) ==
    IF n = 0 THEN <<>> ELSE ChunksOf(t, p, n - 1) \o chunkOf(t, p, n)

\* the k-th newest entry an earlier session left in localStorage
StoredItem(k) ==
    [id |-> 0 - k, outputA |-> Str("stored"), outputB |-> undefined,
     isComparison |-> FALSE]

\* what localStorage may hold under HISTORY_KEY when the component mounts:
\* nothing, or what earlier sessions saved (a list saveToHistory has cut)
StoredHistories ==
    { [k \in 1..n |-> StoredItem(k)] : n \in {0, HistoryLimit - 1, HistoryLimit} }

Min(a, b) == IF a <= b THEN a ELSE b

\* arr.slice(0, n)
slice0(arr, n) == SubSeq(arr, 1, Min(Len(arr), n))

\* prev.filter(item => item.id !== id)
filterId(arr, id) == LET keep(item) == item.id # id IN SelectSeq(arr, keep)

\* the useEffect that runs once after the first render
loadStoredHistory(stored) ==
    /\ ~tester.mounted
    /\ tester' = [tester EXCEPT !.mounted = TRUE, !.history = stored]
    /\ UNCHANGED othersThanTester

\* onClick of the 'Model Battle' button (never disabled)
toggleComparisonMode ==
    /\ tester.mounted
    /\ tester' = [tester EXCEPT !.isComparisonMode = ~@]
    /\ UNCHANGED othersThanTester

\* the calls of test t that are in flight or awaited
callsOf(t) == {c \in tester.calls : c.test = t}

\* runTest up to `await Promise.all`: the panes are cleared, the flags set,
\* the calls issued with callbacks over the fresh locals currentA, currentB
runTest ==
    /\ tester.mounted
    /\ ~(tester.isLoadingA \/ tester.isLoadingB)   \* disabled={isLoadingA || isLoadingB}
    /\ tester.tests < MaxTests
    /\ LET t == tester.tests + 1
           callA == [test |-> t, pane |-> "A", current |-> <<>>, chunks |-> 0,
                     state |-> "streaming"]
           callB == [test |-> t, pane |-> "B", current |-> <<>>, chunks |-> 0,
                     state |-> "streaming"]
       IN tester' = [tester EXCEPT
                       !.outputA = <<>>, !.outputB = <<>>,
                       !.isLoadingA = TRUE,
                       !.isLoadingB = IF tester.isComparisonMode THEN TRUE ELSE @,
                       !.tests = t,
                       !.awaiting = <<[test |-> t,
                                       isComparisonMode |-> tester.isComparisonMode]>>,
                       !.calls = @ \cup {callA}
                                   \cup (IF tester.isComparisonMode THEN {callB} ELSE {})]
    /\ UNCHANGED othersThanTester

\* a callback that writes every chunk to pane A, whichever call it belongs
\* to; used to show that C23 depends on the two callbacks being separate
onChunkOfOnePane(c) ==
    /\ c \in tester.calls /\ c.state = "streaming"
    /\ c.chunks < MaxChunks
    /\ LET current == c.current \o chunkOf(c.test, c.pane, c.chunks + 1)
       IN tester' = [tester EXCEPT
                       !.calls = (@ \ {c}) \cup {[c EXCEPT !.current = current, !.chunks = @ + 1]},
                       !.outputA = current]
    /\ UNCHANGED othersThanTester

\* call c delivers a chunk: `currentA += chunk; setOutputA(currentA)` for
\* the call of pane A, the same with currentB and setOutputB for pane B
onChunkOf(c) ==
    /\ c \in tester.calls /\ c.state = "streaming"
    /\ c.chunks < MaxChunks
    /\ LET current == c.current \o chunkOf(c.test, c.pane, c.chunks + 1)
       IN tester' = [tester EXCEPT
                       !.calls = (@ \ {c}) \cup {[c EXCEPT !.current = current, !.chunks = @ + 1]},
                       !.outputA = IF c.pane = "A" THEN current ELSE @,
                       !.outputB = IF c.pane = "B" THEN current ELSE @]
    /\ UNCHANGED othersThanTester

\* is runTest of the test of call c still suspended in `await Promise.all`
awaited(c) == tester.awaiting # <<>> /\ tester.awaiting[1].test = c.test

\* the local current of the call of pane p of test t ('' when there is none)
currentOf(t, p, settling) ==
    IF settling.pane = p THEN settling.current
    ELSE IF \E c \in callsOf(t) : c.pane = p
         THEN (CHOOSE c \in callsOf(t) : c.pane = p).current
         ELSE <<>>

\* saveToHistory(finalA, finalB) of the runTest that started test t
saveToHistory(prev, t, isComparisonMode, finalA, finalB) ==
    LET historyItem == [id |-> t, outputA |-> finalA, outputB |-> finalB,
                        isComparison |-> isComparisonMode]
    IN slice0(<<historyItem>> \o prev, HistoryLimit)

\* call c ends normally.  When it is the last call of a test that runTest
\* still awaits, Promise.all resolves: the test is saved and the finally
\* block clears the flags.
callResolves(c) ==
    /\ c \in tester.calls /\ c.state = "streaming"
    /\ IF awaited(c)
       THEN IF \A d \in callsOf(c.test) \ {c} : d.state = "resolved"
            THEN LET run == tester.awaiting[1]
                 IN tester' = [tester EXCEPT
                        !.calls = @ \ callsOf(c.test),
                        !.awaiting = <<>>,
                        !.history = saveToHistory(@, c.test, run.isComparisonMode,
                                       currentOf(c.test, "A", c),
                                       IF run.isComparisonMode
                                       THEN currentOf(c.test, "B", c) ELSE undefined),
                        !.isLoadingA = FALSE, !.isLoadingB = FALSE]
            ELSE tester' = [tester EXCEPT
                        !.calls = (@ \ {c}) \cup {[c EXCEPT !.state = "resolved"]}]
       ELSE tester' = [tester EXCEPT !.calls = @ \ {c}]
    /\ UNCHANGED othersThanTester

\* a failure that is recorded like a success (saveToHistory moved into the
\* finally block); used to show that C30 depends on the save following the
\* await inside the try
callRejectsAndSaves(c) ==
    /\ c \in tester.calls /\ c.state = "streaming"
    /\ IF awaited(c)
       THEN LET run == tester.awaiting[1]
            IN tester' = [tester EXCEPT
                   !.calls = {d \in @ : d # c /\ (d.test # c.test \/ d.state = "streaming")},
                   !.awaiting = <<>>,
                   !.history = saveToHistory(@, c.test, run.isComparisonMode,
                                  currentOf(c.test, "A", c),
                                  IF run.isComparisonMode
                                  THEN currentOf(c.test, "B", c) ELSE undefined),
                   !.isLoadingA = FALSE, !.isLoadingB = FALSE]
       ELSE tester' = [tester EXCEPT !.calls = @ \ {c}]
    /\ UNCHANGED othersThanTester

\* call c fails.  When runTest still awaits its test, Promise.all rejects
\* at once: the catch block alerts, the finally block clears both flags,
\* and the other call of the test, if it is streaming, goes on streaming.
callRejects(c) ==
    /\ c \in tester.calls /\ c.state = "streaming"
    /\ IF awaited(c)
       THEN tester' = [tester EXCEPT
                   !.calls = {d \in @ : d # c /\ (d.test # c.test \/ d.state = "streaming")},
                   !.awaiting = <<>>,
                   !.isLoadingA = FALSE, !.isLoadingB = FALSE]
       ELSE tester' = [tester EXCEPT !.calls = @ \ {c}]
    /\ UNCHANGED othersThanTester

\* onClick of an entry of the history panel
loadHistoryItem(item) ==
    /\ tester.mounted
    /\ \E k \in 1..Len(tester.history) : tester.history[k] = item
    /\ tester' = [tester EXCEPT
                    !.outputA = item.outputA,
                    !.outputB = IF Truthy(item.outputB) THEN item.outputB ELSE <<>>,
                    !.isComparisonMode = item.isComparison]
    /\ UNCHANGED othersThanTester

\* onClick of the delete button of an entry
deleteHistoryItem(id) ==
    /\ tester.mounted
    /\ \E k \in 1..Len(tester.history) : tester.history[k].id = id
    /\ tester.deletes < MaxDeletes
    /\ tester' = [tester EXCEPT !.history = filterId(@, id), !.deletes = @ + 1]
    /\ UNCHANGED othersThanTester

\* the 'clear' button, confirmed
clearHistory ==
    /\ tester.mounted
    /\ tester.history # <<>>
    /\ tester' = [tester EXCEPT !.history = <<>>]
    /\ UNCHANGED othersThanTester

\* the entries the user clicks on in the history panel: the newest and the
\* oldest
Clickable ==
    IF tester.history = <<>> THEN {}
    ELSE {tester.history[1], tester.history[Len(tester.history)]}

NextTester ==
    \/ \E stored \in StoredHistories : loadStoredHistory(stored)
    \/ toggleComparisonMode
    \/ runTest
    \/ \E c \in tester.calls : onChunkOf(c)
    \/ \E c \in tester.calls : callResolves(c)
    \/ \E c \in tester.calls : callRejects(c)
    \/ \E item \in Clickable : loadHistoryItem(item)
    \/ \E item \in Clickable : deleteHistoryItem(item.id)
    \/ clearHistory

SpecTester == Init /\ [][NextTester]_vars

\* -------------------------------------------------- PromptBuilder history
\* The undo history of the prompt builder.  The parent owns the prompt and
\* passes it as `data`; an effect on [data] records a changed prompt in the
\* history 800 ms after the last change.  The effect of a render follows
\* the handler that caused the render, so it is part of the handler's step.

\* every variable but builder
othersThanBuilder ==
    <<heap, steps, isRunning, globalVariables, updatedSteps, closureGlobals,
      i, pc, request, nextId, runs, chunksLeft, edits, call, ret, settled,
      stream, tester>>

MAX_HISTORY == 50

\* The render with the new prop `data` and its effect, from the state b the
\* handler left.  The cleanup of the effect that set the waiting timeout
\* clears it; then the effect returns early for a change the component made
\* itself and for a prompt equal to the current snapshot, and otherwise sets
\* a timeout whose callback closes over this render's data and historyIndex.
syncEffect(b, data) ==
    LET c == [b EXCEPT !.data = data, !.timer = <<>>]
    IN IF b.isInternalChange THEN [c EXCEPT !.isInternalChange = FALSE]
       ELSE IF data = b.history[b.historyIndex + 1] THEN c
       ELSE [c EXCEPT !.timer = <<[data |-> data, historyIndex |-> b.historyIndex]>>]

\* the user edits a field or loads a template: the parent passes a prompt
\* that was not seen before
editPrompt ==
    /\ builder.nextVersion <= MaxVersions
    /\ builder.timer # <<>> => builder.undos + builder.reedits < MaxMoves
    /\ builder' = syncEffect(
           [builder EXCEPT !.nextVersion = @ + 1,
                           !.reedits = IF builder.timer # <<>> THEN @ + 1 ELSE @],
           builder.nextVersion)
    /\ UNCHANGED othersThanBuilder

\* the user takes an edit back by hand before it was recorded: the parent
\* passes a prompt equal to the current snapshot
editBack ==
    /\ builder.timer # <<>>
    /\ builder.undos + builder.reedits < MaxMoves
    /\ builder' = syncEffect([builder EXCEPT !.reedits = @ + 1],
                             builder.history[builder.historyIndex + 1])
    /\ UNCHANGED othersThanBuilder

\* newHistory.push(...); if (newHistory.length > MAX_HISTORY) newHistory.shift()
pushSnapshot(prev, historyIndex, data) ==
    LET newHistory == Append(SubSeq(prev, 1, Min(Len(prev), historyIndex + 1)), data)
    IN IF Len(newHistory) > MAX_HISTORY THEN Tail(newHistory) ELSE newHistory

\* a timeout callback that does not shift the history; used to show that
\* C28 depends on the shift
timerFiresNoShift ==
    /\ builder.timer # <<>>
    /\ LET closure == builder.timer[1]
       IN builder' = [builder EXCEPT
            !.history = Append(SubSeq(@, 1, Min(Len(@), closure.historyIndex + 1)),
                               closure.data),
            !.historyIndex = Min(@ + 1, MAX_HISTORY - 1),
            !.timer = <<>>]
    /\ UNCHANGED othersThanBuilder

\* the timeout callback, 800 ms after the last change of the prompt
timerFires ==
    /\ builder.timer # <<>>
    /\ LET closure == builder.timer[1]
       IN builder' = [builder EXCEPT
            !.history = pushSnapshot(@, closure.historyIndex, closure.data),
            !.historyIndex = Min(@ + 1, MAX_HISTORY - 1),
            !.timer = <<>>]
    /\ UNCHANGED othersThanBuilder

\* the state handleUndo leads to from b, when historyIndex > 0
afterUndo(b) ==
    LET targetIndex == b.historyIndex - 1
        targetState == b.history[targetIndex + 1]
    IN syncEffect([b EXCEPT !.isInternalChange = TRUE, !.historyIndex = targetIndex],
                  targetState)

\* the state handleRedo leads to from b, when historyIndex < history.length - 1
afterRedo(b) ==
    LET targetIndex == b.historyIndex + 1
        targetState == b.history[targetIndex + 1]
    IN syncEffect([b EXCEPT !.isInternalChange = TRUE, !.historyIndex = targetIndex],
                  targetState)

handleUndo ==
    /\ builder.historyIndex > 0
    /\ builder.undos + builder.reedits < MaxMoves
    /\ builder' = afterUndo([builder EXCEPT !.undos = @ + 1])
    /\ UNCHANGED othersThanBuilder

handleRedo ==
    /\ builder.historyIndex < Len(builder.history) - 1
    /\ builder.undos + builder.reedits < MaxMoves
    /\ builder' = afterRedo([builder EXCEPT !.undos = @ + 1])
    /\ UNCHANGED othersThanBuilder

NextBuilder ==
    \/ editPrompt
    \/ editBack
    \/ timerFires
    \/ handleUndo
    \/ handleRedo

SpecBuilder == Init /\ [][NextBuilder]_vars

\* ============================================================== claims
\* does sep occur in s
Occurs(s, sep) == \E q \in 1..Len(s) : MatchAt(s, sep, q)

\* a text without a brace
NoBrace(s) == \A q \in 1..Len(s) : s[q] # L /\ s[q] # R

\* the chunks of a call, concatenated in the order they were delivered
RECURSIVE Concat(_)
Concat(chunks) == IF chunks = <<>> THEN <<>> ELSE chunks[1] \o Concat(Tail(chunks))

\* the step shown at position k (1-based) of the chain
Shown(k) == heap[steps[k]]

\* the shown stage with this id
ShownById(id) == Shown(IndexOfId(heap, steps, id))

\* the stage at position k (1-based) of the run in progress: the object
\* updatedSteps[k - 1] of runChain
RunStage(k) == heap[updatedSteps[k]]

\* the prompt fields of the stages of the run in progress, as the run reads
\* them: updatedSteps[k].promptData
RunData == [k \in 1..Len(updatedSteps) |-> heap[updatedSteps[k]].promptData]

\* the prompt fields of the displayed stages
ShownData == [k \in 1..Len(steps) |-> Shown(k).promptData]

\* the ids of the stages the latest run has made a call for
RequestIds == {request[n].id : n \in 1..Len(request)}

\* the latest run has ended with the rejection of its last call
RunFailed ==
    /\ ~isRunning
    /\ request # <<>>
    /\ request[Len(request)].state = "rejected"

\* ----- C1
\* C1: the call that rejects is the last call of its run; and for a chain
\* whose stages are all idle when run() starts (the first run: nothing but
\* a run changes a status), once the run has ended with the rejection of
\* the call of stage i, every stage before i is shown completed, stage i is
\* shown with status error, and every stage after i (a stage the run made
\* no call for) is shown idle with undefined output.  A stage is named by
\* its id, the calls of the run being the calls of its stages 1..i in order.
C1_FailureHaltsDownstream ==
  /\ \A n \in 1..Len(request) :
        request[n].state = "rejected" => (n = Len(request) /\ ~isRunning /\ pc = "idle")
  /\ (runs = 1 /\ RunFailed) =>
        /\ \A n \in 1..Len(request) :
             /\ request[n].stage = n - 1
             /\ request[n].id \in ShownIds =>
                   ShownById(request[n].id).status =
                       IF n < Len(request) THEN "completed" ELSE "error"
        /\ \A id \in ShownIds \ RequestIds :
             ShownById(id).status = "idle" /\ ShownById(id).output = undefined

\* ----- C2
\* C2: the calls of a run are issued in strictly increasing stage order, a
\* call is issued only when every earlier call of the run has resolved, and
\* in every state at most one stage has status running.
C2_OneStageAtATime ==
    /\ \A n \in 1..Len(request) :
         /\ request[n].stage = n - 1
         /\ n < Len(request) => request[n].state = "resolved"
    /\ Cardinality({k \in 1..Len(steps) : Shown(k).status = "running"}) <= 1

\* ----- C3
\* The resolver of the specification: one pass from left to right, every
\* {{name}} with name in scope replaced by scope[name], the text put in
\* place of a placeholder never looked at again.
RECURSIVE resolveFrom(_, _, _)
resolveFrom(text, scope, q) ==
    LET at(p) == { n \in DOMAIN scope : occursAt(text, Placeholder(n), p) }
        found == { p \in q..Len(text) : at(p) # {} }
    IN IF found = {} THEN SubSeq(text, q, Len(text))
       ELSE LET p == CHOOSE p1 \in found : \A p2 \in found : p1 <= p2
                n == CHOOSE m \in at(p) : TRUE
            IN SubSeq(text, q, p - 1) \o scope[n]
                 \o resolveFrom(text, scope, p + Len(Placeholder(n)))

resolve(text, scope) == resolveFrom(text, scope, 1)

\* the scope of the specification for the n-th call of the run: the global
\* variables, and output_k for every earlier stage k of the run, bound to
\* the whole output of that stage (which takes precedence)
GlobalKeysOf(globals) == {globals[k].key : k \in 1..Len(globals)}
GlobalValue(globals, key) ==
    globals[CHOOSE k \in 1..Len(globals) : globals[k].key = key].val

RunScope(n, globals) ==
    [ name \in GlobalKeysOf(globals) \cup {OutputKey[k] : k \in 1..(n - 1)} |->
        IF \E k \in 1..(n - 1) : name = OutputKey[k]
        THEN Concat(request[CHOOSE k \in 1..(n - 1) : name = OutputKey[k]].chunks)
        ELSE GlobalValue(globals, name) ]

ExpectedPrompt(data, scope) ==
    Str("Role: ")            \o resolve(data.role, scope)
 \o Str("\nInstruction: ")   \o resolve(data.instruction, scope)
 \o Str("\nContext: ")       \o resolve(data.context, scope)
 \o Str("\nConstraints: ")   \o resolve(data.constraints, scope)
 \o Str("\nEvaluation: ")    \o resolve(data.evaluation, scope)

\* C3: while a run is in progress, the request text of every stage the run
\* has made a call for is the five fields of that stage with every
\* {{output_k}} of an earlier stage k replaced by the whole output of stage
\* k in this run, inserted as it is.  The fields and the global variables
\* are those the run reads (what was displayed when run() was invoked).
C3_RequestCarriesEarlierOutputs ==
    isRunning =>
        \A n \in 1..Len(request) :
            request[n].fullPrompt = ExpectedPrompt(RunData[n], RunScope(n, closureGlobals))

\* ----- C9
\* what is required of a stage object s for the n-th call of the run: when
\* the call has resolved, s is completed and its output is the
\* concatenation, in delivery order, of the chunks of that call and of
\* nothing else; while the call is pending, s is running with the chunks
\* delivered so far
OutputIsChunksOf(s, n) ==
    /\ request[n].state = "resolved" =>
          (s.status = "completed" /\ s.output = Concat(request[n].chunks))
    /\ request[n].state = "pending" =>
          (s.status = "running" /\ s.output = Concat(request[n].chunks))

\* C9: when the call of a stage has resolved, the stage is completed and its
\* output is the concatenation, in delivery order, of the chunks of that
\* call and of nothing else.  This holds of the stage object the run works
\* on, which is the n-th stage of the run, and of the stage displayed under
\* that id, also when the chain is edited during or after the run.
C9_OutputIsItsChunks ==
    \A n \in 1..Len(request) :
        /\ isRunning =>
              (RunStage(n).id = request[n].id /\ OutputIsChunksOf(RunStage(n), n))
        /\ request[n].id \in ShownIds => OutputIsChunksOf(ShownById(request[n].id), n)

\* witness: in a second run a stage has completed with two different chunks
C9_Witness ==
    /\ runs = 2
    /\ request # <<>>
    /\ request[1].state = "resolved"
    /\ Len(request[1].chunks) = 2
    /\ request[1].chunks[1] # request[1].chunks[2]
    /\ Shown(1).status = "completed"

\* ----- C10
\* C10: a run resets the stages before it starts, so that after a run that
\* failed at stage i (a first run or a later one) no stage after i shows a
\* status or an output: they are idle with no output.
C10_RerunResetsStages ==
    RunFailed =>
        \A id \in ShownIds \ RequestIds :
            ShownById(id).status = "idle" /\ ~Truthy(ShownById(id).output)


\* ------------------- claims about substituteAll and substituteVars alone
\* the call has returned
Returned == ret # NotReturned

\* the steps (1-based) before the step the call resolves
Earlier(c) == 1..c.currentStepIndex

\* the names in the scope of this call: the keys of the global variables
\* and output_k of every earlier step
InScope(c) == GlobalKeysOf(c.globals) \cup {OutputKey[k] : k \in Earlier(c)}

\* the names a text of this model can hold as a placeholder
Names == { "topic", "missing" } \cup { OutputKey[k] : k \in 1..(MaxOut + 1) }

\* ----- C4
\* C4: when the text is {{output_k}} (and no global variable has that name),
\* it is replaced by the output of stage k if stage k is an earlier stage,
\* also when that output is the empty string, and it is left as it is if
\* stage k is the stage being resolved or a later one, whatever output that
\* stage still holds.
C4_ScopeIsEarlierOutputs ==
    Returned =>
        \A k \in 1..Len(call.outs) :
            (call.text = Placeholder(OutputKey[k]) /\ OutputKey[k] \notin GlobalKeysOf(call.globals)) =>
                IF k \in Earlier(call)
                THEN NoBrace(call.outs[k]) => ret = call.outs[k]
                ELSE ret = call.text

\* ----- C5
\* C5 speaks of a global variable of the chain that is named output_k.
\* globalVariables holds the one key `topic` from its initial value on, and
\* its only setter rewrites a key it holds: no call of substituteAll has a
\* global variable of that name, and the prompt tester, whose variables can
\* be named output_k, has no stage outputs.

\* ----- C6
\* the resolver of call c applied to another text
resultOf(text, c) ==
    IF c.fn = "substituteVars" THEN substituteVars(text, c.globals)
    ELSE substituteAll(text, c.currentStepIndex, c.globals, c.outs)

\* the resolver of call c applied to every piece of a split text
RECURSIVE substituteEach(_, _)
substituteEach(parts, c) ==
    IF parts = <<>> THEN <<>>
    ELSE <<resultOf(parts[1], c)>> \o substituteEach(Tail(parts), c)

C7_NoRescan ==
    Returned =>
        /\ \A k \in 1..Len(call.globals) :
             call.text = Placeholder(call.globals[k].key) => ret = call.globals[k].val
        /\ \A k \in Earlier(call) :
             (call.text = Placeholder(OutputKey[k]) /\ Truthy(call.outs[k])
                /\ OutputKey[k] \notin GlobalKeysOf(call.globals))
             => ret = call.outs[k]

\* ----- C8
\* no value substituteAll puts into the text holds a brace
PlainValues(c) ==
    /\ \A k \in 1..Len(c.globals) : NoBrace(c.globals[k].val)
    /\ \A k \in Earlier(c) : NoBrace(c.outs[k])

\* the text is plain text and placeholders: every brace of it is a brace
\* of a {{name}}
RECURSIVE WellFormed(_)
WellFormed(t) ==
    IF t = <<>> THEN TRUE
    ELSE IF t[1] \notin {L, R} THEN WellFormed(Tail(t))
    ELSE \E e \in 5..Len(t) :
           /\ t[1] = L /\ t[2] = L /\ t[e - 1] = R /\ t[e] = R
           /\ \A k \in 3..(e - 2) : t[k] \notin {L, R}
           /\ WellFormed(SubSeq(t, e + 1, Len(t)))

\* C8: for every name in the scope, no {{name}} of the text is left in the
\* result, however many there are.  The formula speaks of the calls in
\* which every placeholder of the result is one of the text (the braces of
\* the text are those of its placeholders and no value put into it holds a
\* brace): there the result holds no {{name}} of a name in scope.
C8_EveryOccurrenceReplaced ==
    (Returned /\ PlainValues(call) /\ WellFormed(call.text)) =>
        \A n \in InScope(call) : ~Occurs(ret, Placeholder(n))

\* --------------------------------------------------- claims about the run
\* the latest run has ended and every call of it resolved
RunSucceeded ==
    /\ ~isRunning
    /\ request # <<>>
    /\ \A n \in 1..Len(request) : request[n].state = "resolved"

\* ----- C11
\* C11: when every call of the adapter ends, a run that started ends: from
\* every state with isRunning = true a state with isRunning = false follows,
\* whether the stages all complete or one fails.
C11_RunEnds == isRunning ~> ~isRunning

\* witness: a run of two stages has ended with every stage completed
C11_Witness ==
    /\ RunSucceeded /\ runs = 1 /\ Len(request) = 2 /\ Len(steps) = 2
    /\ pc = "idle" /\ settled = "fulfilled(undefined)"

\* ----- C12
\* C12: what run() gives its caller tells success from failure: with the
\* value of a run whose stages all completed taken as the report of success
\* (runChain's promise fulfilled with undefined), a run that ended gives
\* that value if and only if every call of it resolved, that is, every
\* stage reached completed.
C12_ResultTellsFailure ==
    (~isRunning /\ runs > 0) =>
        (settled = "fulfilled(undefined)" <=> RunSucceeded)

\* ----- C13
\* C13: a pass over the stages starts only on an idle chain: when a run
\* starts, no run is in progress and every stage has status idle.
C13_RunOnlyOnIdleChain ==
    [][(runs' = runs + 1) =>
         (~isRunning /\ \A k \in 1..Len(steps) : Shown(k).status = "idle")]_vars

\* ----- C14
\* what the user has written: the stage list without status and output
ChainSpec ==
    [k \in 1..Len(steps) |->
        [id |-> Shown(k).id, name |-> Shown(k).name, promptData |-> Shown(k).promptData]]

\* C14: from one state of a run in progress to the next, the stage list
\* (which stages, their names, their five fields) and the global variables
\* do not change.
C14_NoMutationWhileRunning ==
    [][(isRunning /\ isRunning') =>
         (ChainSpec' = ChainSpec /\ globalVariables' = globalVariables)]_vars

\* ----- C15
\* C15: (1) the calls of a run are one call per stage, for the stages
\* 1, 2, ... in order, each call but the last resolved; (2) while a run is
\* in progress the n-th call is the call of the n-th stage of the run and
\* the last call is the pending call of the stage the loop is at; (3) a run
\* ends with the rejection of its last call, or with its resolution when
\* that was the call of the last stage: a run that succeeded made one call
\* for every stage; (4) a run, the first or a later one, starts with the
\* call of the first stage of the displayed chain.  As request holds the
\* calls of the latest run only, (1) and (4) say that a later run starts at
\* stage 1 again.
C15_OneCallPerStageFromStageOne ==
    /\ [](\A n \in 1..Len(request) :
            /\ request[n].stage = n - 1
            /\ n < Len(request) => request[n].state = "resolved")
    /\ [](isRunning =>
            /\ request # <<>> /\ i = Len(request) - 1
            /\ request[Len(request)].state = "pending"
            /\ Len(request) <= Len(updatedSteps)
            /\ \A n \in 1..Len(request) : request[n].id = RunStage(n).id)
    /\ [][ /\ (isRunning /\ ~isRunning') =>
                /\ Len(request') = Len(request)
                /\ \/ request'[Len(request)].state = "rejected"
                   \/ /\ request'[Len(request)].state = "resolved"
                      /\ Len(request) = Len(updatedSteps)
           /\ (runs' = runs + 1) =>
                /\ Len(request') = 1
                /\ request'[1].stage = 0
                /\ request'[1].id = Shown(1).id
         ]_vars

\* witness: the first run failed at stage 2; the second run is at stage 1
C15_Witness ==
    /\ runs = 2 /\ isRunning /\ i = 0 /\ Len(steps) = 2
    /\ Len(request) = 1 /\ request[1].stage = 0
    /\ Shown(1).status = "running" /\ Shown(2).status = "error"

\* -------------------------------------------- claims about a whole prompt
\* the labels the five fields stand under, in the order of the fields
LabelsOf(fn) ==
    IF fn = "getSystemInstruction"
    THEN << Str("# SYSTEM INSTRUCTION\n## ROLE\n"), Str("\n\n## PRIMARY TASK\n"),
            Str("\n\n## CONTEXT\n"), Str("\n\n## CONSTRAINTS & RULES\n"),
            Str("\n\n## SUCCESS CRITERIA\n") >>
    ELSE << Str("Role: "), Str("\nInstruction: "), Str("\nContext: "),
            Str("\nConstraints: "), Str("\nEvaluation: ") >>

\* a field of the call's prompt, resolved in the call's scope
ResolvedField(c, f) ==
    IF c.fn = "fullPrompt"
    THEN substituteAll(c.data[f], c.currentStepIndex, c.globals, c.outs)
    ELSE substituteVars(c.data[f], c.variables)

\* label 1, field 1, label 2, field 2, ... from the k-th on
RECURSIVE Labelled(_, _)
Labelled(c, k) ==
    IF k > Len(FieldOrder) THEN <<>>
    ELSE LabelsOf(c.fn)[k] \o ResolvedField(c, FieldOrder[k]) \o Labelled(c, k + 1)

Assemblers == {"fullPrompt", "getSystemInstruction", "getFullPrompt"}

\* ----- C16
\* C16: the request text is the five resolved fields in the order role,
\* instruction, context, constraints, evaluation, each after its label; it
\* is a function of the fields and the scope and of nothing else.
C16_RequestIsLabelledFields ==
    (Returned /\ call.fn \in Assemblers) => ret = Labelled(call, 1)

\* witness: a request of runChain with five fields of which no two are the
\* same, one of them with a placeholder that was resolved
C16_Witness ==
    /\ Returned /\ call.fn = "fullPrompt"
    /\ \A k1, k2 \in 1..5 : k1 # k2 => call.data[FieldOrder[k1]] # call.data[FieldOrder[k2]]
    /\ ResolvedField(call, "role") # call.data.role

\* ----- C17
\* the orders in which the five fields can be concatenated
FieldOrders ==
    { o \in [1..5 -> Fields] : \A k1, k2 \in 1..5 : k1 # k2 => o[k1] # o[k2] }

\* C17: detectedVars returns no name twice, and the set of the names it
\* returns is the set it would return for every other order of the five
\* fields.
C17_DetectedVarsOrderFree ==
    (Returned /\ call.fn = "detectedVars") =>
        /\ \A k1, k2 \in 1..Len(ret) : k1 # k2 => ret[k1] # ret[k2]
        /\ \A o \in FieldOrders : Range(detectedVars(call.data, o)) = Range(ret)

\* ----- C18
\* the names that stand as a placeholder inside one field
NamesIn(text) == Range(mapStrip(matchAll(text, 1)))

\* C18: detectedVars returns exactly the names that stand as a {{name}}
\* placeholder inside one of the five fields.
C18_DetectedVarsAreFieldPlaceholders ==
    (Returned /\ call.fn = "detectedVars") =>
        Range(ret) = UNION { NamesIn(call.data[f]) : f \in Fields }

\* ----- C19
\* every name the text refers to by a placeholder is in the scope
AllReferencedInScope(c) ==
    \A n \in Names : Occurs(c.text, Placeholder(n)) => n \in InScope(c)

\* C19 as stated: when every name the text refers to is in the scope,
\* resolving the result again in the same scope gives the result.
C19_ResolveTwice ==
    (Returned /\ AllReferencedInScope(call)) => resultOf(ret, call) = ret

\* C19 amended: the same, for a text of plain text and placeholders and a
\* scope whose values hold no brace.
C19_ResolveTwicePlainValues ==
    (Returned /\ AllReferencedInScope(call) /\ WellFormed(call.text) /\ PlainValues(call))
        => resultOf(ret, call) = ret

\* witness: two placeholders of names in scope, replaced by plain values
C19_Witness ==
    /\ Returned /\ AllReferencedInScope(call) /\ WellFormed(call.text) /\ PlainValues(call)
    /\ \E a, b \in InScope(call) : call.text = Placeholder(a) \o Placeholder(b)
    /\ NoBrace(ret) /\ ret # <<>>

\* ----- C20
\* C20: in every step, (1) when addStep, removeStep, updateStepField,
\* updateStepName or an edit of a global variable acts, every stage shown
\* before and after keeps its status and its output; (2) a stage whose
\* output changes is running after the change; (3) the stage addStep adds
\* is idle with no output.
C20_OnlyExecutorAltersStages ==
    [][ /\ (edits' # edits \/ nextId' # nextId) =>
             \A id \in ShownIds \cap ShownIds' :
                 /\ ShownById(id)'.status = ShownById(id).status
                 /\ ShownById(id)'.output = ShownById(id).output
        /\ \A id \in ShownIds \cap ShownIds' :
             ShownById(id)'.output # ShownById(id).output
                 => ShownById(id)'.status = "running"
        /\ nextId' # nextId =>
             \A id \in ShownIds' \ ShownIds :
                 ShownById(id)'.status = "idle" /\ ShownById(id)'.output = undefined
      ]_vars

\* witness: a stage was renamed while it was running and had output, and
\* is shown running with that output
C20_Witness ==
    /\ isRunning /\ edits = 1 /\ pc = "await"
    /\ \E k \in 1..Len(steps) :
         /\ Shown(k).name = Str("Renamed")
         /\ Shown(k).status = "running"
         /\ Truthy(Shown(k).output)

\* ----- C25
\* C25: in every state of the chain view, the states reached by editing,
\* renaming or removing a stage during a run included, isRunning = false
\* implies that no stage of the displayed list has status running.
C25_NoStageRunningWhenIdle ==
    ~isRunning => \A k \in 1..Len(steps) : Shown(k).status # "running"

\* ----- C27
\* the ids of the displayed stages, in display order
StageIds == [k \in 1..Len(steps) |-> Shown(k).id]

\* seq without the element x, the others in their order
Without(seq, x) == LET keep(y) == y # x IN SelectSeq(seq, keep)

\* C27: the chain always holds at least one stage; a step of removeStep
\* happens only on a chain of more than one stage (on a one-stage chain
\* removeStep changes nothing), removes exactly the stage with the given id
\* and keeps the other stages, unchanged, in their relative order; a step of
\* addStep appends one stage and keeps the others.
C27_ChainNeverEmpty ==
    /\ [](Len(steps) >= 1)
    /\ [][ /\ \A id \in ShownIds : removeStep(id) =>
                /\ Len(steps) > 1
                /\ StageIds' = Without(StageIds, id)
                /\ Len(steps') = Len(steps) - 1
                /\ \A j \in ShownIds \ {id} : ShownById(j)' = ShownById(j)
           /\ addStep =>
                /\ Len(steps') = Len(steps) + 1
                /\ \A k \in 1..Len(steps) : Shown(k)' = Shown(k)
         ]_vars

\* witness: the middle stage of a three-stage chain was removed, the first
\* and the third stage are shown in that order
C27_Witness ==
    /\ edits = 1
    /\ StageIds = <<1, 3>>

\* ----- C24
\* C24: a run works on a snapshot taken when run() is invoked.  (1) While a
\* run is in progress every request text of the run is the text the
\* executor builds from the run's own global variables and stage fields;
\* (2) these are the values displayed at the moment run() is invoked;
\* (3) no step taken while the run is in progress, an edit of a global
\* variable or of a stage field included, changes them; (4) no step but the
\* start of a new run changes the text of a request already made.
C24_RunWorksOnSnapshot ==
    /\ [](isRunning =>
            \A n \in 1..Len(request) :
                request[n].fullPrompt =
                    fullPromptOf(RunData[n], n - 1, closureGlobals,
                                 Outputs(heap, updatedSteps)))
    /\ [][ /\ (runs' = runs + 1) =>
                (closureGlobals' = globalVariables /\ RunData' = ShownData)
           /\ (isRunning /\ isRunning') =>
                (closureGlobals' = closureGlobals /\ RunData' = RunData)
           /\ (runs' = runs) =>
                \A n \in 1..Len(request) :
                    /\ n <= Len(request')
                    /\ request'[n].fullPrompt = request[n].fullPrompt
         ]_vars

\* witness: during a run a field of stage 2 was edited, the display shows
\* the new text, and the run has sent the request of stage 2
C24_Witness ==
    /\ isRunning /\ edits = 1
    /\ Len(request) = 2 /\ Len(steps) >= 2
    /\ ShownData[2] # RunData[2]

\* ----- C22
\* the class of the card of a stage that depends on its status
\* (`step.status === 'running' ? ... : ...`)
cardClass(status) ==
    IF status = "running"
    THEN "border-indigo-500 shadow-[0_0_80px_rgba(99,102,241,0.2)]"
    ELSE "border-slate-200 dark:border-slate-800 shadow-2xl"

\* the class of the numbered badge of a stage that depends on its status
badgeClass(status) ==
    IF status = "completed" THEN "bg-green-500 text-white"
    ELSE IF status = "running" THEN "bg-indigo-600 text-white animate-pulse"
    ELSE "bg-slate-100 dark:bg-slate-900 text-slate-500"

\* what the chain view shows of the status of a stage
indicator(status) == <<cardClass(status), badgeClass(status)>>

\* C22: the chain view distinguishes the outcomes of a stage after a run:
\* two displayed stages of which one has status error and the other status
\* idle or completed are shown with different indicators.
C22_FailedStageIsDistinguished ==
    \A j, k \in 1..Len(steps) :
        (Shown(j).status = "error" /\ Shown(k).status \in {"idle", "completed"})
            => indicator(Shown(j).status) # indicator(Shown(k).status)

\* ----- C21
\* what the source has produced so far, as onChunk is to receive it
Produced == [k \in 1..stream.pos |-> textOr(stream.source[k])]

\* C21: for one call of testPrompt, (1) onChunk has been invoked with the
\* chunks the source has produced, in the order it produced them; (2) the
\* call is resolved only when the source is exhausted and has not failed;
\* (3) a source that has failed leaves the call rejected, never resolved;
\* (4) once the call is rejected onChunk is not invoked again.
C21_ChunksInOrderThenSettle ==
    /\ [](stream.delivered = Produced)
    /\ [](stream.state = "resolved" =>
            (stream.pos = Len(stream.source) /\ stream.ending = "end"))
    /\ [][stream.state = "iterating" /\ stream.pos = Len(stream.source)
            /\ stream.ending = "throw" =>
                stream'.state \in {"iterating", "rejected"}]_vars
    /\ [][stream.state = "rejected" =>
            (stream'.state = "rejected" /\ stream'.delivered = stream.delivered)]_vars

\* witness: the source failed after two different chunks; the call is
\* rejected and onChunk received the two chunks in their order
C21_Witness ==
    /\ stream.state = "rejected"
    /\ stream.delivered = <<Str("S"), Str("T")>>

\* ----- C23
\* C23: the two calls of a test in comparison mode do not interfere,
\* whatever the interleaving of their chunks.  (1) The text a call has
\* accumulated is the chunks of that call, in order, and nothing else;
\* (2) a chunk of the call of pane A sets output A to the chunks of that
\* call so far and leaves output B as it is, and the same for B with A;
\* (3) the outputs recorded for a test are the chunks of its call A and, in
\* comparison mode, of its call B (no output B otherwise).
C23_ComparisonCallsDoNotInterfere ==
    /\ [](\A c \in tester.calls : c.current = ChunksOf(c.test, c.pane, c.chunks))
    /\ [][\A c \in tester.calls : onChunkOf(c) =>
            /\ c.pane = "A" =>
                 /\ tester'.outputA = ChunksOf(c.test, "A", c.chunks + 1)
                 /\ tester'.outputB = tester.outputB
            /\ c.pane = "B" =>
                 /\ tester'.outputB = ChunksOf(c.test, "B", c.chunks + 1)
                 /\ tester'.outputA = tester.outputA
         ]_vars
    /\ [](\A k \in 1..Len(tester.history) :
            LET item == tester.history[k]
            IN item.id > 0 =>
                 /\ \E n \in 0..MaxChunks : item.outputA = ChunksOf(item.id, "A", n)
                 /\ IF item.isComparison
                    THEN \E n \in 0..MaxChunks : item.outputB = ChunksOf(item.id, "B", n)
                    ELSE item.outputB = undefined)

\* witness: a comparison test was recorded after its two calls had streamed
\* two chunks each, and the panes show the two outputs
C23_Witness ==
    /\ tester.history # <<>>
    /\ tester.history[1].isComparison
    /\ tester.history[1].outputA = ChunksOf(1, "A", 2)
    /\ tester.history[1].outputB = ChunksOf(1, "B", 2)
    /\ tester.outputA = ChunksOf(1, "A", 2)
    /\ tester.outputB = ChunksOf(1, "B", 2)

\* ----- C26
\* C26: the Run button of the prompt tester is enabled only when no call of
\* an earlier test is still streaming, and every chunk written to a pane
\* belongs to the most recently started test.
C26_NoChunkOfAnEarlierTest ==
    /\ [](~(tester.isLoadingA \/ tester.isLoadingB) =>
            \A c \in tester.calls : c.state # "streaming")
    /\ [][\A c \in tester.calls : onChunkOf(c) => c.test = tester.tests]_vars

\* ----- C30
\* C30: the tester's history holds at most 50 entries; a step in which a
\* call fails records nothing; a step that changes the history after the
\* stored history was loaded either removes entries and keeps the others in
\* their order, or records the test runTest awaits when the last of its
\* calls resolves, all of them having resolved: the new entry is put at the
\* front, the entries before it follow in their order, and of a full
\* history the oldest entry is dropped.
C30_HistoryBoundedNewestFirst ==
    /\ [](Len(tester.history) <= HistoryLimit)
    /\ [][ /\ \A c \in tester.calls : callRejects(c) => tester'.history = tester.history
           /\ (tester.mounted /\ tester'.history # tester.history) =>
                \/ /\ Len(tester'.history) < Len(tester.history)
                   /\ \/ tester'.history = <<>>
                      \/ \E k \in 1..Len(tester.history) :
                            tester'.history = filterId(tester.history, tester.history[k].id)
                \/ /\ tester.awaiting # <<>>
                   /\ LET run == tester.awaiting[1]
                      IN /\ Cardinality(callsOf(run.test)) =
                                IF run.isComparisonMode THEN 2 ELSE 1
                         /\ \E c \in callsOf(run.test) :
                              /\ callResolves(c)
                              /\ \A d \in callsOf(run.test) \ {c} : d.state = "resolved"
                         /\ tester'.history[1].id = run.test
                         /\ Tail(tester'.history) =
                                slice0(tester.history, HistoryLimit - 1)
         ]_vars

\* witness: two tests were recorded into a stored history of 49 or 50
\* entries: the newest is at the front and the oldest entries are gone
C30_Witness ==
    /\ Len(tester.history) = HistoryLimit
    /\ tester.deletes = 0
    /\ tester.history[1].id = 2
    /\ tester.history[2].id = 1
    /\ tester.history[HistoryLimit].id = 0 - (HistoryLimit - 2)

\* ----- C28
\* C28: in the undo history of the prompt builder, 1 <= history.length <= 50
\* and 0 <= historyIndex <= history.length - 1; and a step that records an
\* edit leaves the recorded prompt as the last entry with historyIndex on
\* it, after the entries up to the one the edit was made on: the entries an
\* undo had left for redo are gone.
C28_HistoryWithinBounds ==
    /\ [](/\ 1 <= Len(builder.history) /\ Len(builder.history) <= MAX_HISTORY
          /\ 0 <= builder.historyIndex
          /\ builder.historyIndex <= Len(builder.history) - 1)
    /\ [][timerFires =>
            LET kept == SubSeq(builder.history, 1, builder.historyIndex + 1)
                all  == Append(kept, builder.data)
            IN /\ builder'.historyIndex = Len(builder'.history) - 1
               /\ builder'.history =
                    IF Len(all) > MAX_HISTORY THEN Tail(all) ELSE all
         ]_vars

\* witness: after an undo an edit was recorded: version 2, which the undo
\* had left for redo, is gone and the index is on the new entry
C28_Witness ==
    /\ builder.history = <<0, 1, 3>>
    /\ builder.historyIndex = 2
    /\ builder.undos = 1 /\ builder.reedits = 0
    /\ builder.timer = <<>>

\* ----- C29
\* C29: undo immediately followed by redo restores the prompt: in every
\* step of undo, the prompt a redo leads to from the state reached is the
\* prompt shown before the undo, also when that prompt was edited less than
\* 800 ms before and is not recorded yet.
C29_UndoRedoRestores ==
    [][handleUndo => afterRedo(builder').data = builder.data]_vars

====
